---- MODULE Spec2Model ----
(***************************************************************************)
(* PDP-11 subset simulator (src/pdp11-sim.c, first translation unit,       *)
(* lines 1-1010) and the 4-way set-associative PLRU cache directory        *)
(* (src/unnamed/part_000, lines 1-199).                                    *)
(*                                                                         *)
(* Two specifications share the variables:                                 *)
(*   Spec       the fetch/decode/execute loop of main() over a bounded     *)
(*              family of memory images;                                   *)
(*   SpecCache  cache_init / cache_access over a bounded set of addresses. *)
(***************************************************************************)
EXTENDS Integers, Naturals, Sequences, FiniteSets, TLC

(***************************************************************************)
(* Program constants                                                       *)
(***************************************************************************)
MEMSIZE == 32768

LINES_PER_BANK == 32

W16 == 65536

(***************************************************************************)
(* Bounds of the model                                                     *)
(***************************************************************************)
\* cache_access calls between two cache_init calls
MaxAccesses == 5

\* the same, in the runs that stay in set 0
MaxSet0Accesses == 8

\* instructions executed by one run of the simulator
MaxInsts == 8

VARIABLES
  \* ---- src/pdp11-sim.c globals ----
  memory, reg, n, z, v, c, src, dst, running,
  memory_reads, memory_writes, inst_fetches, inst_execs,
  branch_taken, branch_execs,
  \* main(): last fetched instruction word, the handler operate() chose,
  \* and how the process stands ("loading", "running", "exit0", "fatal",
  \* "crash")
  instruction, op, status,
  \* main(): the index i of the loader loop, and the lines of standard input
  \* not yet read, as runs <<word, number of lines holding it>>
  loader_i, stdin,
  \* ---- cache directory globals ----
  plru_state, valid, dirty, tag,
  cache_reads, cache_writes, hits, misses, write_backs,
  \* cache_access(): parameters and local of the last call
  address, type, bank,
  \* history: the <<tag, index>> pairs accessed since the last cache_init
  lines

cpuvars == <<memory, reg, n, z, v, c, src, dst, running,
             memory_reads, memory_writes, inst_fetches, inst_execs,
             branch_taken, branch_execs, instruction, op, status,
             loader_i, stdin>>

cachevars == <<plru_state, valid, dirty, tag,
               cache_reads, cache_writes, hits, misses, write_backs,
               address, type, bank, lines>>

vars == <<cpuvars, cachevars>>

(***************************************************************************)
(* Bit helpers (C unsigned arithmetic)                                     *)
(***************************************************************************)
Pow2(k) == 2^k

Shr(x, k) == x \div Pow2(k)

Bit(x, k) == (x \div Pow2(k)) % 2

U16(x) == x % W16

(***************************************************************************)
(* Cache directory                                                         *)
(***************************************************************************)
Ways == 0..3

Sets == 0..(LINES_PER_BANK - 1)

plru_bank == <<0, 0, 1, 1, 2, 3, 2, 3>>

next_state == <<6, 4, 1, 0,
                7, 5, 1, 0,
                6, 4, 3, 2,
                7, 5, 3, 2,
                6, 4, 1, 0,
                7, 5, 1, 0,
                6, 4, 3, 2,
                7, 5, 3, 2>>

\* mutant: the replacement table read from its other end
PlruBank_Reversed(s) == plru_bank[8 - s]

\* C arrays are 0-based, TLA+ tuples 1-based
PlruBank(s) == plru_bank[s + 1]

\* mutant: a reference leaves the replacement state as it was
NextState_Unchanged(i) == i \div 4

\* mutant: the table indexed by the bank alone
NextState_BankOnly(i) == next_state[(i % 4) + 1]

NextState(i) == next_state[i + 1]

\* mutant: the index taken from the low bits, without the shift
addr_index_NoShift(a) == a % 32

addr_index(a) == Shr(a, 5) % 32

addr_tag(a) == Shr(a, 10)

\* the if / else-if chain of the probe: the ways that are valid with a
\* matching tag; the first of them is the bank that hit
\* mutant: the probe compares tags without looking at the valid bit
HitWays_TagOnly(vld, tg, idx, t) == {w \in Ways : tg[w][idx] = t}

\* mutant: the probe stops after bank 2
HitWays_ThreeBanks(vld, tg, idx, t) ==
  {w \in 0..2 : vld[w][idx] = 1 /\ tg[w][idx] = t}

HitWays(vld, tg, idx, t) == {w \in Ways : vld[w][idx] = 1 /\ tg[w][idx] = t}

MinWay(S) == CHOOSE w \in S : \A x \in S : w <= x

\* mutant: the invalid ways tried from bank 3 down
VictimWay_HighestInvalid(vld, st, idx) ==
  IF vld[3][idx] = 0 THEN 3
  ELSE IF vld[2][idx] = 0 THEN 2
  ELSE IF vld[1][idx] = 0 THEN 1
  ELSE IF vld[0][idx] = 0 THEN 0
  ELSE PlruBank(st[idx])

\* mutant: the replacement table consulted also when a way is invalid
VictimWay_PlruOnly(vld, st, idx) == PlruBank(st[idx])

\* the replacement choice of the miss branch
VictimWay(vld, st, idx) ==
  IF vld[0][idx] = 0 THEN 0
  ELSE IF vld[1][idx] = 0 THEN 1
  ELSE IF vld[2][idx] = 0 THEN 2
  ELSE IF vld[3][idx] = 0 THEN 3
  ELSE PlruBank(st[idx])

\* mutant: every valid victim counted as written back
VictimWrittenBack_ValidOnly(vld, drt, b, idx) == vld[b][idx] = 1

\* if( valid[bank][addr_index] && dirty[bank][addr_index] ) write_backs++
VictimWrittenBack(vld, drt, b, idx) == vld[b][idx] = 1 /\ drt[b][idx] = 1

\* hits++ in the four hit branches, misses++ in the miss branch
HitsAfter(hit, k) == IF hit THEN k + 1 ELSE k

\* mutant: misses++ moved out of the miss branch
MissesAfter_Always(hit, k) == k + 1

MissesAfter(hit, k) == IF hit THEN k ELSE k + 1

\* the directory and the counters as one record
CurCache ==
  [plru_state |-> plru_state, valid |-> valid, dirty |-> dirty, tag |-> tag,
   cache_reads |-> cache_reads, cache_writes |-> cache_writes,
   hits |-> hits, misses |-> misses, write_backs |-> write_backs]

\* the bank cache_access ends with: the bank that hit, or the victim
BankOf(d, a) ==
  LET idx == addr_index(a)
      hw == HitWays(d.valid, d.tag, idx, addr_tag(a))
  IN IF hw # {} THEN MinWay(hw) ELSE VictimWay(d.valid, d.plru_state, idx)

\* mutant: the dirty bit set by reads as well as writes
CacheStep_DirtyOnRead(d, a, ty) ==
  LET idx == addr_index(a)
      t == addr_tag(a)
      hit == HitWays(d.valid, d.tag, idx, t) # {}
      b == BankOf(d, a)
      wb == (~hit) /\ VictimWrittenBack(d.valid, d.dirty, b, idx)
      dirty1 == IF hit THEN d.dirty ELSE [d.dirty EXCEPT ![b][idx] = 0]
  IN
  [cache_reads |-> IF ty = 0 THEN d.cache_reads + 1 ELSE d.cache_reads,
   cache_writes |-> IF ty = 0 THEN d.cache_writes ELSE d.cache_writes + 1,
   hits |-> HitsAfter(hit, d.hits),
   misses |-> MissesAfter(hit, d.misses),
   write_backs |-> IF wb THEN d.write_backs + 1 ELSE d.write_backs,
   valid |-> IF hit THEN d.valid ELSE [d.valid EXCEPT ![b][idx] = 1],
   tag |-> IF hit THEN d.tag ELSE [d.tag EXCEPT ![b][idx] = t],
   plru_state |->
     [d.plru_state EXCEPT ![idx] = NextState(d.plru_state[idx] * 4 + b)],
   dirty |-> [dirty1 EXCEPT ![b][idx] = 1]]

\* mutant: the dirty test of the miss branch made for the bank of a hit too
CacheStep_WriteBackOnHit(d, a, ty) ==
  LET idx == addr_index(a)
      t == addr_tag(a)
      hit == HitWays(d.valid, d.tag, idx, t) # {}
      b == BankOf(d, a)
      wb == VictimWrittenBack(d.valid, d.dirty, b, idx)
      dirty1 == IF hit THEN d.dirty ELSE [d.dirty EXCEPT ![b][idx] = 0]
  IN
  [cache_reads |-> IF ty = 0 THEN d.cache_reads + 1 ELSE d.cache_reads,
   cache_writes |-> IF ty = 0 THEN d.cache_writes ELSE d.cache_writes + 1,
   hits |-> HitsAfter(hit, d.hits),
   misses |-> MissesAfter(hit, d.misses),
   write_backs |-> IF wb THEN d.write_backs + 1 ELSE d.write_backs,
   valid |-> IF hit THEN d.valid ELSE [d.valid EXCEPT ![b][idx] = 1],
   tag |-> IF hit THEN d.tag ELSE [d.tag EXCEPT ![b][idx] = t],
   plru_state |->
     [d.plru_state EXCEPT ![idx] = NextState(d.plru_state[idx] * 4 + b)],
   dirty |-> IF ty = 1 THEN [dirty1 EXCEPT ![b][idx] = 1] ELSE dirty1]

\* cache_access(address, type) on directory and counters d
CacheStep(d, a, ty) ==
  LET idx == addr_index(a)
      t == addr_tag(a)
      hit == HitWays(d.valid, d.tag, idx, t) # {}
      b == BankOf(d, a)
      wb == (~hit) /\ VictimWrittenBack(d.valid, d.dirty, b, idx)
      dirty1 == IF hit THEN d.dirty ELSE [d.dirty EXCEPT ![b][idx] = 0]
  IN
  [cache_reads |-> IF ty = 0 THEN d.cache_reads + 1 ELSE d.cache_reads,
   cache_writes |-> IF ty = 0 THEN d.cache_writes ELSE d.cache_writes + 1,
   hits |-> HitsAfter(hit, d.hits),
   misses |-> MissesAfter(hit, d.misses),
   write_backs |-> IF wb THEN d.write_backs + 1 ELSE d.write_backs,
   valid |-> IF hit THEN d.valid ELSE [d.valid EXCEPT ![b][idx] = 1],
   tag |-> IF hit THEN d.tag ELSE [d.tag EXCEPT ![b][idx] = t],
   plru_state |->
     [d.plru_state EXCEPT ![idx] = NextState(d.plru_state[idx] * 4 + b)],
   dirty |-> IF ty = 1 THEN [dirty1 EXCEPT ![b][idx] = 1] ELSE dirty1]

InitCache ==
  /\ plru_state = [i \in Sets |-> 0]
  /\ valid = [w \in Ways |-> [i \in Sets |-> 0]]
  /\ dirty = [w \in Ways |-> [i \in Sets |-> 0]]
  /\ tag = [w \in Ways |-> [i \in Sets |-> 0]]
  /\ cache_reads = 0
  /\ cache_writes = 0
  /\ hits = 0
  /\ misses = 0
  /\ write_backs = 0
  /\ address = 0
  /\ type = 0
  /\ bank = 0
  /\ lines = {}

\* mutant: cache_init clears the valid and dirty bits and leaves the tags
cache_init_KeepsTags ==
  /\ plru_state' = [i \in Sets |-> 0]
  /\ valid' = [w \in Ways |-> [i \in Sets |-> 0]]
  /\ dirty' = [w \in Ways |-> [i \in Sets |-> 0]]
  /\ tag' = tag
  /\ cache_reads' = 0
  /\ cache_writes' = 0
  /\ hits' = 0
  /\ misses' = 0
  /\ write_backs' = 0
  /\ lines' = {}
  /\ UNCHANGED <<address, type, bank>>
  /\ UNCHANGED cpuvars

cache_init ==
  /\ plru_state' = [i \in Sets |-> 0]
  /\ valid' = [w \in Ways |-> [i \in Sets |-> 0]]
  /\ dirty' = [w \in Ways |-> [i \in Sets |-> 0]]
  /\ tag' = [w \in Ways |-> [i \in Sets |-> 0]]
  /\ cache_reads' = 0
  /\ cache_writes' = 0
  /\ hits' = 0
  /\ misses' = 0
  /\ write_backs' = 0
  /\ lines' = {}
  /\ UNCHANGED <<address, type, bank>>
  /\ UNCHANGED cpuvars

Access(a, ty) ==
  \E d \in {CacheStep(CurCache, a, ty)} :
  /\ cache_reads' = d.cache_reads
  /\ cache_writes' = d.cache_writes
  /\ hits' = d.hits
  /\ misses' = d.misses
  /\ write_backs' = d.write_backs
  /\ valid' = d.valid
  /\ tag' = d.tag
  /\ plru_state' = d.plru_state
  /\ dirty' = d.dirty
  /\ address' = a
  /\ type' = ty
  /\ bank' = BankOf(CurCache, a)
  /\ lines' = lines \cup {<<a \div 1024, (a \div 32) % 32>>}

\* byte addresses presented to the cache: five lines of set 0 (tags 0..4:
\* enough to fill the four ways and evict), tag 0 of set 0 at another byte
\* offset, and a line of set 31 (tag 0, offset 7)
Set0Addrs == {0, 1024, 2048, 3072, 4096}

CacheAddrs == Set0Addrs \cup {5, 31 * 32 + 7}

\* any address, read or write
cache_access ==
  /\ cache_reads + cache_writes < MaxAccesses
  /\ \E a \in CacheAddrs, ty \in {0, 1} : Access(a, ty)
  /\ UNCHANGED cpuvars

\* longer runs over the lines of set 0: reads of any line, writes of tag 0
cache_access_set0 ==
  /\ cache_reads + cache_writes < MaxSet0Accesses
  /\ \E a \in Set0Addrs, ty \in {0, 1} : (ty = 1 => a = 0) /\ Access(a, ty)
  /\ UNCHANGED cpuvars

NextCache == cache_init \/ cache_access

NextSet0 == cache_init \/ cache_access_set0

(***************************************************************************)
(* CPU: memory, operand phrases, machine record                            *)
(***************************************************************************)
Words == 0..(W16 - 1)

\* memory[] is kept as the function of its nonzero cells; every other cell
\* of the MEMSIZE-element array holds 0
Mem(mem, a) == IF a \in DOMAIN mem THEN mem[a] ELSE 0

Store(mem, a, val) ==
  IF val = 0
    THEN [x \in (DOMAIN mem) \ {a} |-> mem[x]]
    ELSE [x \in (DOMAIN mem) \cup {a} |-> IF x = a THEN val ELSE mem[x]]

\* addr_phrase_t
Phrase0 == [mode |-> 0, reg |-> 0, addr |-> 0, value |-> 0]

\* Outcomes of undefined behaviour (an index >= MEMSIZE into memory[], the
\* division by zero of pstats): the process faults, or it goes on; a read
\* past the array then yields some word, a write past the array either
\* misses every modelled object or lands on a register.
UBChoices ==
  { [fault |-> TRUE,  word |-> 0,     onreg |-> FALSE],
    [fault |-> FALSE, word |-> 0,     onreg |-> FALSE],
    [fault |-> FALSE, word |-> 65535, onreg |-> TRUE] }

\* the globals of pdp11-sim.c as one record
Cur ==
  [memory |-> memory, reg |-> reg, n |-> n, z |-> z, v |-> v, c |-> c,
   src |-> src, dst |-> dst, running |-> running,
   memory_reads |-> memory_reads, memory_writes |-> memory_writes,
   inst_fetches |-> inst_fetches, inst_execs |-> inst_execs,
   branch_taken |-> branch_taken, branch_execs |-> branch_execs,
   status |-> status]

\* a failed assert() aborts the process; so does a faulting access
Abort(m) == [m EXCEPT !.status = "crash"]

Live(m) == m.status = "running"

\* memory[reg[7]] read by get_operand for an immediate, absolute or index
\* word: reg[7] is not checked against MEMSIZE there
PCWordFaults(m, u) == m.reg[7] >= MEMSIZE /\ u.fault

PCWord(m, u) == IF m.reg[7] < MEMSIZE THEN Mem(m.memory, m.reg[7]) ELSE u.word

\* addr = reg[r]; assert; value = memory[addr]; memory_reads++
Direct(m, ph, a) ==
  IF a >= MEMSIZE THEN Abort([m EXCEPT ![ph].addr = a])
  ELSE [m EXCEPT ![ph].addr = a,
                 ![ph].value = Mem(m.memory, a),
                 !.memory_reads = @ + 1]

\* addr = a; assert; addr = memory[addr]; memory_reads++; assert;
\* value = memory[addr]; memory_reads++
Deferred(m, ph, a) ==
  IF a >= MEMSIZE THEN Abort([m EXCEPT ![ph].addr = a])
  ELSE LET p == Mem(m.memory, a) IN
       IF p >= MEMSIZE
         THEN Abort([m EXCEPT ![ph].addr = p, !.memory_reads = @ + 1])
         ELSE [m EXCEPT ![ph].addr = p,
                        ![ph].value = Mem(m.memory, p),
                        !.memory_reads = @ + 2]

\* mutant: the register advanced by 1, as for a byte operand
IncReg_ByOne(m, r) == [m EXCEPT !.reg[r] = U16(@ + 1)]

IncReg(m, r) == [m EXCEPT !.reg[r] = U16(@ + 2)]

DecReg(m, r) == [m EXCEPT !.reg[r] = U16(@ + W16 - 2)]

get_operand(m, ph, u) ==
  LET mode == m[ph].mode
      r == m[ph].reg
  IN
  CASE mode = 0 -> [m EXCEPT ![ph].value = m.reg[r]]
    [] mode = 1 -> Direct(m, ph, m.reg[r])
    [] mode = 2 ->
         IF r = 7
           THEN IF PCWordFaults(m, u) THEN Abort(m)
                ELSE [m EXCEPT ![ph].value = PCWord(m, u),
                               ![ph].addr = 0,
                               !.inst_fetches = @ + 1,
                               !.reg[7] = U16(@ + 2)]
           ELSE LET m1 == Direct(m, ph, m.reg[r]) IN
                IF Live(m1) THEN IncReg(m1, r) ELSE m1
    [] mode = 3 ->
         IF r = 7
           THEN IF PCWordFaults(m, u) THEN Abort(m)
                ELSE LET a == PCWord(m, u)
                         m1 == [m EXCEPT ![ph].addr = a,
                                         !.memory_reads = @ + 1,
                                         !.inst_fetches = @ + 1,
                                         !.reg[7] = U16(@ + 2)]
                     IN IF a >= MEMSIZE THEN Abort(m1)
                        ELSE IncReg([m1 EXCEPT ![ph].value = Mem(m.memory, a),
                                               !.memory_reads = @ + 1], 7)
           ELSE LET m1 == Deferred(m, ph, m.reg[r]) IN
                IF Live(m1) THEN IncReg(m1, r) ELSE m1
    [] mode = 4 ->
         LET m1 == DecReg(m, r) IN Direct(m1, ph, m1.reg[r])
    [] mode = 5 ->
         LET m1 == DecReg(m, r) IN Deferred(m1, ph, m1.reg[r])
    [] mode = 6 ->
         IF PCWordFaults(m, u) THEN Abort(m)
         ELSE LET a == PCWord(m, u) + m.reg[r]
                  m1 == [m EXCEPT ![ph].addr = a,
                                  !.inst_fetches = @ + 1,
                                  !.reg[7] = U16(@ + 2)]
              IN IF a >= MEMSIZE THEN Abort(m1)
                 ELSE [m1 EXCEPT ![ph].value = Mem(m.memory, a),
                                 !.memory_reads = @ + 1]
    [] mode = 7 ->
         IF PCWordFaults(m, u) THEN Abort(m)
         ELSE LET s == PCWord(m, u) + m.reg[r]
                  \* only the reg != 7 branch wraps the sum into range
                  a == IF r = 7 THEN s ELSE s % MEMSIZE
                  m1 == [m EXCEPT ![ph].addr = a, !.inst_fetches = @ + 1]
              IN IF a >= MEMSIZE THEN Abort(m1)
                 ELSE LET p == Mem(m.memory, a)
                          m2 == [m1 EXCEPT !.reg[7] = U16(@ + 2),
                                           ![ph].addr = p,
                                           !.memory_reads = @ + 1]
                      IN IF p >= MEMSIZE THEN Abort(m2)
                         ELSE [m2 EXCEPT ![ph].value = Mem(m.memory, p),
                                         !.memory_reads = @ + 1]

\* update_operand and put_operand have the same body
WriteBack(m, ph) ==
  LET mode == m[ph].mode
      r == m[ph].reg
  IN
  IF mode = 0 THEN [m EXCEPT !.reg[r] = U16(m[ph].value)]
  ELSE IF mode = 2 /\ r = 7 THEN m
  ELSE [m EXCEPT !.memory = Store(m.memory, m[ph].addr, m[ph].value),
                 !.memory_writes = @ + 1]

update_operand(m, ph) == WriteBack(m, ph)

put_operand(m, ph) == WriteBack(m, ph)

(***************************************************************************)
(* Instruction semantics                                                   *)
(***************************************************************************)
Sign(x) == Bit(x, 15)

\* src.mode, src.reg, dst.mode, dst.reg from the instruction word, then
\* get_operand(&src); get_operand(&dst)
TwoOperands(m, w, u) ==
  LET m0 == [m EXCEPT !.src.mode = Shr(w, 9) % 8,
                      !.src.reg = Shr(w, 6) % 8,
                      !.dst.mode = Shr(w, 3) % 8,
                      !.dst.reg = w % 8]
      m1 == get_operand(m0, "src", u)
  IN IF Live(m1) THEN get_operand(m1, "dst", u) ELSE m1

OneOperand(m, w, u) ==
  get_operand([m EXCEPT !.dst.mode = Shr(w, 3) % 8, !.dst.reg = w % 8],
              "dst", u)

\* mutant: the overflow flag of add computed as asl computes it
add_sem_OverflowAsShift(m, w, u) ==
  LET m2 == TwoOperands(m, w, u) IN
  IF ~Live(m2) THEN m2
  ELSE LET old_dst == m2.dst.value
           sv == m2.src.value
           res == U16(old_dst + sv)
           m3 == update_operand([m2 EXCEPT !.dst.value = res], "dst")
       IN [m3 EXCEPT !.n = (Shr(res, 15) # 0),
                     !.z = (res = 0),
                     !.v = (Sign(old_dst) # Sign(res)),
                     !.c = (res < old_dst)]

add_sem(m, w, u) ==
  LET m2 == TwoOperands(m, w, u) IN
  IF ~Live(m2) THEN m2
  ELSE LET old_dst == m2.dst.value
           sv == m2.src.value
           res == U16(old_dst + sv)
           m3 == update_operand([m2 EXCEPT !.dst.value = res], "dst")
       IN [m3 EXCEPT !.n = (Shr(res, 15) # 0),
                     !.z = (res = 0),
                     !.v = (Sign(old_dst) = Sign(sv)) /\ (Sign(res) # Sign(sv)),
                     !.c = (res < old_dst)]

\* mutant: the carry of asl taken from bit 0, as asr takes it
asl_sem_CarryLowBit(m, w, u) ==
  LET m1 == OneOperand(m, w, u) IN
  IF ~Live(m1) THEN m1
  ELSE LET old_value == m1.dst.value
           res == U16(old_value * 2)
           m2 == update_operand([m1 EXCEPT !.dst.value = res], "dst")
       IN [m2 EXCEPT !.n = (Sign(res) = 1),
                     !.z = (res = 0),
                     !.v = (Sign(old_value) # Sign(res)),
                     !.c = (old_value % 2 = 1)]

asl_sem(m, w, u) ==
  LET m1 == OneOperand(m, w, u) IN
  IF ~Live(m1) THEN m1
  ELSE LET old_value == m1.dst.value
           res == U16(old_value * 2)
           m2 == update_operand([m1 EXCEPT !.dst.value = res], "dst")
       IN [m2 EXCEPT !.n = (Sign(res) = 1),
                     !.z = (res = 0),
                     !.v = (Sign(old_value) # Sign(res)),
                     !.c = (Sign(old_value) = 1)]

asr_sem(m, w, u) ==
  LET m1 == OneOperand(m, w, u) IN
  IF ~Live(m1) THEN m1
  ELSE LET old_value == m1.dst.value
           \* (value >> 1) | sign_bit
           res == Shr(old_value, 1) + Sign(old_value) * 32768
           m2 == update_operand([m1 EXCEPT !.dst.value = res], "dst")
       IN [m2 EXCEPT !.n = (Sign(res) = 1),
                     !.z = (res = 0),
                     !.v = (Sign(old_value) # Sign(res)),
                     !.c = (old_value % 2 = 1)]

\* mutant: the offset byte taken without sign extension
Offset8_Unsigned(w) == w % 256

\* operand & 0377 sign-extended to int
Offset8(w) == IF w % 256 >= 128 THEN (w % 256) - 256 ELSE w % 256

\* mutant: a taken branch counted in branch_taken only
Branch_TakenOnly(m, w, taken) ==
  IF taken
    THEN [m EXCEPT !.reg[7] = U16(@ + W16 + 2 * Offset8(w)),
                   !.branch_taken = @ + 1]
    ELSE [m EXCEPT !.branch_execs = @ + 1]

Branch(m, w, taken) ==
  IF taken
    THEN [m EXCEPT !.reg[7] = U16(@ + W16 + 2 * Offset8(w)),
                   !.branch_taken = @ + 1,
                   !.branch_execs = @ + 1]
    ELSE [m EXCEPT !.branch_execs = @ + 1]

beq_sem(m, w, u) == Branch(m, w, m.z)

bne_sem(m, w, u) == Branch(m, w, ~m.z)

br_sem(m, w, u) == Branch(m, w, TRUE)

\* mutant: cmp stores the difference in its destination, as sub is meant to
cmp_sem_StoresResult(m, w, u) ==
  LET m2 == TwoOperands(m, w, u) IN
  IF ~Live(m2) THEN m2
  ELSE LET sv == m2.src.value
           dv == m2.dst.value
           res == U16(sv + W16 - dv)
           m3 == update_operand([m2 EXCEPT !.dst.value = res], "dst")
       IN [m3 EXCEPT !.n = (Sign(res) = 1),
                     !.z = (res = 0),
                     !.v = (Sign(sv) # Sign(dv)),
                     !.c = (sv < dv)]

cmp_sem(m, w, u) ==
  LET m2 == TwoOperands(m, w, u) IN
  IF ~Live(m2) THEN m2
  ELSE LET sv == m2.src.value
           dv == m2.dst.value
           res == U16(sv + W16 - dv)
       IN [m2 EXCEPT !.n = (Sign(res) = 1),
                     !.z = (res = 0),
                     !.v = (Sign(sv) # Sign(dv)),
                     !.c = (sv < dv)]

\* mutant: halt leaves the running flag set
halt_sem_KeepRunning(m, w, u) == m

halt_sem(m, w, u) == [m EXCEPT !.running = FALSE]

\* mutant: the byte extension applied to every register destination, R0 too
MovValue_AnyRegister(dmode, dreg, sv) ==
  IF dmode = 0
    THEN IF Bit(sv, 7) = 1 THEN (sv % 256) + 65280 ELSE sv % 256
    ELSE sv

\* "If moving byte to register, sign extend into bits 15-8"
MovValue(dmode, dreg, sv) ==
  IF dmode = 0 /\ dreg > 0
    THEN IF Bit(sv, 7) = 1 THEN (sv % 256) + 65280 ELSE sv % 256
    ELSE sv

mov_sem(m, w, u) ==
  LET m2 == TwoOperands(m, w, u) IN
  IF ~Live(m2) THEN m2
  ELSE LET val == MovValue(m2.dst.mode, m2.dst.reg, m2.src.value)
           m3 == put_operand([m2 EXCEPT !.dst.value = val], "dst")
       IN [m3 EXCEPT !.n = (Sign(val) = 1),
                     !.z = (val = 0),
                     !.v = FALSE,
                     !.c = FALSE]

\* register index of sob: operand & 0x0007
SobReg(w) == w % 8

sob_sem(m, w, u) ==
  LET r == SobReg(w)
      off == w % 64
      m1 == [m EXCEPT !.reg[r] = U16(@ + W16 - 1)]
  IN IF m1.reg[r] # 0
       THEN [m1 EXCEPT !.reg[7] = U16(@ + W16 - 2 * off),
                       !.branch_taken = @ + 1,
                       !.branch_execs = @ + 1]
       ELSE [m1 EXCEPT !.branch_execs = @ + 1]

\* where sub stores its result: reg[dst.reg] for mode 0, else
\* memory[dst.value]; an index >= MEMSIZE is outside the array
SubStore(m, res, u) ==
  LET i == m.dst.value IN
  IF m.dst.mode = 0 THEN [m EXCEPT !.reg[m.dst.reg] = res]
  ELSE IF i < MEMSIZE THEN [m EXCEPT !.memory = Store(m.memory, i, res)]
  ELSE IF u.fault THEN Abort(m)
  ELSE IF u.onreg THEN [m EXCEPT !.reg[(i - MEMSIZE) % 8] = res]
  ELSE m

sub_sem(m, w, u) ==
  LET m2 == TwoOperands(m, w, u) IN
  IF ~Live(m2) THEN m2
  ELSE LET sv == m2.src.value
           dv == m2.dst.value
           res == U16(dv + W16 - sv)
           m3 == SubStore(m2, res, u)
           x == (Sign(dv) + Sign(sv) + Sign(res)) % 2 = 1
       IN IF ~Live(m3) THEN m3
          ELSE [m3 EXCEPT !.n = (Sign(res) = 1),
                          !.z = (res = 0),
                          !.v = x,
                          !.c = x]

(***************************************************************************)
(* operate(): the dispatch, in the order of the if / else-if chain         *)
(***************************************************************************)
\* mutant: halt recognised by its 10-bit prefix, like asr and asl
IsHalt_Prefix(w) == Shr(w, 6) = 0

\* else if(instruction == 0000)
IsHalt(w) == w = 0

Decode(w) ==
  IF Shr(w, 12) = 1 THEN "mov"
  ELSE IF Shr(w, 12) = 2 THEN "cmp"
  ELSE IF Shr(w, 12) = 6 THEN "add"
  ELSE IF Shr(w, 12) = \o16 THEN "sub"
  ELSE IF Shr(w, 9) = \o077 THEN "sob"
  ELSE IF Shr(w, 8) = 1 THEN "br"
  ELSE IF Shr(w, 8) = 2 THEN "bne"
  ELSE IF Shr(w, 8) = 3 THEN "beq"
  ELSE IF Shr(w, 6) = \o0062 THEN "asr"
  ELSE IF Shr(w, 6) = \o0063 THEN "asl"
  ELSE IF IsHalt(w) THEN "halt"
  ELSE "invalid"

\* pstats(): (branch_taken * 100) / branch_execs divides by zero when no
\* branch was executed
pstats(m, u) ==
  IF m.branch_execs = 0 /\ u.fault THEN Abort(m)
  ELSE [m EXCEPT !.status = "exit0"]

\* mutant: operate() counts the executed instruction but not its word
AfterHandler_NoFetchCount(m, u) ==
  IF ~Live(m) THEN m
  ELSE LET m1 == [m EXCEPT !.inst_execs = @ + 1] IN
       IF m1.reg[7] >= MEMSIZE THEN [m1 EXCEPT !.status = "fatal"]
       ELSE IF m1.running THEN m1
       ELSE pstats(m1, u)

\* the tail of operate() and of the loop body of main(), then the loop
\* test and, when the loop ends, pstats()
AfterHandler(m, u) ==
  IF ~Live(m) THEN m
  ELSE LET m1 == [m EXCEPT !.inst_execs = @ + 1, !.inst_fetches = @ + 1] IN
       IF m1.reg[7] >= MEMSIZE THEN [m1 EXCEPT !.status = "fatal"]
       ELSE IF m1.running THEN m1
       ELSE pstats(m1, u)

\* instruction = memory[reg[7]]; reg[7] += 2
Fetched == [Cur EXCEPT !.reg[7] = U16(@ + 2)]

Commit(m) ==
  /\ memory' = m.memory
  /\ reg' = m.reg
  /\ n' = m.n
  /\ z' = m.z
  /\ v' = m.v
  /\ c' = m.c
  /\ src' = m.src
  /\ dst' = m.dst
  /\ running' = m.running
  /\ memory_reads' = m.memory_reads
  /\ memory_writes' = m.memory_writes
  /\ inst_fetches' = m.inst_fetches
  /\ inst_execs' = m.inst_execs
  /\ branch_taken' = m.branch_taken
  /\ branch_execs' = m.branch_execs
  /\ status' = m.status

\* while (reg[7] < MEMSIZE && running)
LoopRuns ==
  /\ status = "running"
  /\ running
  /\ reg[7] < MEMSIZE
  /\ inst_execs < MaxInsts

\* the handler operate() calls for a decoded mnemonic
Handler(name, m, w, u) ==
  CASE name = "mov" -> mov_sem(m, w, u)
    [] name = "cmp" -> cmp_sem(m, w, u)
    [] name = "add" -> add_sem(m, w, u)
    [] name = "sub" -> sub_sem(m, w, u)
    [] name = "sob" -> sob_sem(m, w, u)
    [] name = "br" -> br_sem(m, w, u)
    [] name = "bne" -> bne_sem(m, w, u)
    [] name = "beq" -> beq_sem(m, w, u)
    [] name = "asr" -> asr_sem(m, w, u)
    [] name = "asl" -> asl_sem(m, w, u)
    [] name = "halt" -> halt_sem(m, w, u)

\* one iteration of the loop of main() that dispatches to handler name
Iteration(name) ==
  /\ LoopRuns
  /\ Decode(Mem(memory, reg[7])) = name
  /\ instruction' = Mem(memory, reg[7])
  /\ op' = name
  /\ \E u \in UBChoices :
       \E m \in {AfterHandler(Handler(name, Fetched, Mem(memory, reg[7]), u), u)} :
         Commit(m)
  /\ UNCHANGED <<loader_i, stdin>>
  /\ UNCHANGED cachevars

mov == Iteration("mov")

cmp == Iteration("cmp")

add == Iteration("add")

sub == Iteration("sub")

sob == Iteration("sob")

br == Iteration("br")

bne == Iteration("bne")

beq == Iteration("beq")

asr == Iteration("asr")

asl == Iteration("asl")

halt == Iteration("halt")

\* printf("Invalid opcode"); exit(1)
invalid ==
  /\ LoopRuns
  /\ Decode(Mem(memory, reg[7])) = "invalid"
  /\ instruction' = Mem(memory, reg[7])
  /\ op' = "invalid"
  /\ Commit([Fetched EXCEPT !.status = "fatal"])
  /\ UNCHANGED <<loader_i, stdin>>
  /\ UNCHANGED cachevars

\* one iteration of the loader loop of main(): fgets() returned a line,
\* memory[i] = word, i += 2; i is not compared with MEMSIZE, and a store at
\* an index >= MEMSIZE is outside the array
load ==
  /\ status = "loading"
  /\ stdin # << >>
  /\ stdin' = IF Head(stdin)[2] > 1
                THEN <<<<Head(stdin)[1], Head(stdin)[2] - 1>>>> \o Tail(stdin)
                ELSE Tail(stdin)
  /\ loader_i' = loader_i + 2
  /\ IF loader_i < MEMSIZE
       THEN /\ memory' = Store(memory, loader_i, Head(stdin)[1])
            /\ UNCHANGED <<reg, status>>
       ELSE \E u \in UBChoices :
              /\ memory' = memory
              /\ status' = IF u.fault THEN "crash" ELSE status
              /\ reg' = IF ~u.fault /\ u.onreg
                          THEN [reg EXCEPT ![(loader_i - MEMSIZE) % 8] =
                                             Head(stdin)[1]]
                          ELSE reg
  /\ UNCHANGED <<n, z, v, c, src, dst, running, memory_reads, memory_writes,
                 inst_fetches, inst_execs, branch_taken, branch_execs,
                 instruction, op>>
  /\ UNCHANGED cachevars

\* fgets() returned NULL: reg[7] = 0 and the fetch loop starts
load_end ==
  /\ status = "loading"
  /\ stdin = << >>
  /\ status' = "running"
  /\ reg' = [reg EXCEPT ![7] = 0]
  /\ UNCHANGED <<memory, n, z, v, c, src, dst, running, memory_reads,
                 memory_writes, inst_fetches, inst_execs, branch_taken,
                 branch_execs, instruction, op, loader_i, stdin>>
  /\ UNCHANGED cachevars

Next ==
  \/ mov \/ cmp \/ add \/ sub
  \/ sob
  \/ br \/ bne \/ beq
  \/ asr \/ asl
  \/ halt
  \/ invalid

(***************************************************************************)
(* Memory images and the state main() starts the loop in                   *)
(***************************************************************************)
\* the loader stores the Nth input word at memory[2*N]
ImageOf(ws) ==
  [a \in {2 * (i - 1) : i \in {j \in 1..Len(ws) : ws[j] # 0}} |->
     ws[(a \div 2) + 1]]

\* does the operand field f (mode * 8 + reg) take a word from the
\* instruction stream (immediate, absolute, index, index deferred)
TakesWord(f) == (f \div 8) \in {6, 7} \/ ((f \div 8) \in {2, 3} /\ f % 8 = 7)

\* the words that follow instruction word w: x for its first extension
\* word, 4 for its second
ExtWords(w, x) ==
  LET two == Decode(w) \in {"mov", "cmp", "add", "sub"}
      one == Decode(w) \in {"asr", "asl"}
      sx == two /\ TakesWord(Shr(w, 6) % 64)
      dx == (two \/ one) /\ TakesWord(w % 64)
  IN (IF sx THEN <<x>> ELSE <<>>) \o
     (IF dx THEN <<IF sx THEN 4 ELSE x>> ELSE <<>>)

\* ADD #a,R1; MOV #b,R0; w with its extension words; HALT (the zero words
\* up to address 14); data words at 16..22, d being the word R1 = 16
\* points at
Program(a, b, w, x, d) ==
  ImageOf(<<\o062701, a, \o012700, b, w>> \o ExtWords(w, x))
    @@ (16 :> d @@ 18 :> 1 @@ 20 :> \o011064 @@ 22 :> \o100000)

SrcFields == {\o00, \o11, \o21, \o27, \o37, \o41, \o51, \o61, \o71}

DstFields ==
  {\o00, \o01, \o07, \o11, \o21, \o27, \o31, \o37, \o41, \o51, \o61, \o67, \o71}

TwoOpWords ==
  {o * 4096 + s * 64 + d : o \in {\o01, \o02, \o06, \o16}, s \in SrcFields, d \in DstFields}

OneOpWords == {k * 64 + d : k \in {\o062, \o063}, d \in DstFields}

BranchWords == {k * 256 + o : k \in {1, 2, 3}, o \in {0, 1, 127, 128, 254, 255}}

SobWords == {\o077 * 512 + r * 64 + o : r \in {0, 1, 7}, o \in {0, 1, 2, 7, 63}}

OtherWords == {0, 1, 7, \o006177, \o006400, \o170000}

InstrPool == TwoOpWords \cup OneOpWords \cup BranchWords \cup SobWords \cup OtherWords

\* <<R1, R0, extension word, data word>> of the programs
Params ==
  { <<16, 1, 2, 20>>,
    <<16, 0, 2, 20>>,
    <<16, \o011064, \o001234, 20>>,
    <<16, \o100000, \o177777, 20>>,
    <<16, 1, 2, \o100001>>,
    <<17, 1, 2, 20>>,
    <<\o100020, \o011064, 2, 20>> }

\* the end-to-end programs of the specification
ScenarioImages ==
  { ImageOf(<<0>>),
    ImageOf(<<\o012700, \o000005, 0>>),
    ImageOf(<<\o012700, \o000003, \o077001, 0>>),
    ImageOf(<<\o012700, \o077777, \o012701, \o000001, \o060100, 0>>) }

\* MOV #k,R0; SOB R0,1; HALT
CountedLoop(k) == ImageOf(<<\o012700, k, \o077001, 0>>)

LoopCounts == {1, 2, 3}

CountedLoopImages == {CountedLoop(k) : k \in LoopCounts}

\* ADD #077772,R7 jumps to the last word of memory[], which holds HALT
TopOfMemoryImages == {ImageOf(<<\o062707, \o077772>>)}

\* ADD #k,R1; SOB with offset 1, which the code applies to R1
SobLoopImages == {ImageOf(<<\o062701, k, \o077001>>) : k \in LoopCounts}

Images ==
  {Program(p[1], p[2], w, p[3], p[4]) : p \in Params, w \in InstrPool}
  \cup ScenarioImages \cup CountedLoopImages \cup TopOfMemoryImages
  \cup SobLoopImages

\* every 16-bit instruction word as the first word of the image
DecodeImages == {ImageOf(<<w>>) : w \in Words}

\* operand values of the arithmetic programs: the boundaries of the signed
\* and unsigned 16-bit ranges, byte boundaries and mixed bit patterns
AluValues ==
  {0, 1, 2, \o000177, \o000200, \o011064, \o052525, \o077777,
   \o100000, \o100001, \o125252, \o177776, \o177777}

\* ADD R1,R0; CMP R1,R0; SUB R1,R0; ASL R0; ASR R0; ASL R1; ASR R1
AluRegWords ==
  {\o060100, \o020100, \o160100, \o006300, \o006200, \o006301, \o006201}

\* ADD R0,@#16; CMP @#16,R0; SUB R0,@#16; ASL @#16; ASR @#16
AluMemWords == {\o060037, \o023700, \o160037, \o006337, \o006237}

\* MOV R1,R0; SOB R0,0; BR .+2; BNE .+2; BEQ .+2; an unassigned word
AluOtherWords == {\o010100, \o077000, \o000400, \o001000, \o001400, \o170000}

\* Program with the word at 16 set to d and the absolute address 16 as the
\* extension word
AluImage(a, b, w, d) == Store(Program(a, b, w, 16, 20), 16, d)

\* ADD #a,R1; ADD #b,R1; MOV R1,R0: a MOV after an ADD that may carry
MovAfterAddImages ==
  {ImageOf(<<\o062701, a, \o062701, b, \o010100>>) :
     a \in AluValues, b \in AluValues}

AluImages ==
  {AluImage(a, b, w, 20) : a \in AluValues, b \in AluValues,
                           w \in AluRegWords \cup AluOtherWords}
  \cup {AluImage(16, b, w, d) : b \in AluValues, d \in AluValues,
                                w \in AluMemWords}
  \cup ScenarioImages \cup MovAfterAddImages

\* the index the loader ends with after the shortest input that gives the
\* image
LastIndex(img) ==
  IF DOMAIN img = {} THEN 0
  ELSE 2 + CHOOSE a \in DOMAIN img : \A b \in DOMAIN img : b <= a

InitCpu(imgs) ==
  /\ memory \in imgs
  /\ loader_i = LastIndex(memory)
  /\ stdin = << >>
  /\ reg = [i \in 0..7 |-> 0]
  /\ n = FALSE
  /\ z = FALSE
  /\ v = FALSE
  /\ c = FALSE
  /\ src = Phrase0
  /\ dst = Phrase0
  /\ running = TRUE
  /\ memory_reads = 0
  /\ memory_writes = 0
  /\ inst_fetches = 0
  /\ inst_execs = 0
  /\ branch_taken = 0
  /\ branch_execs = 0
  /\ instruction = 0
  /\ op = "none"
  /\ status = "running"

Init == InitCpu(Images) /\ InitCache

InitDecode == InitCpu(DecodeImages) /\ InitCache

InitAlu == InitCpu(AluImages) /\ InitCache

InitCacheOnly == InitCpu({ImageOf(<<0>>)}) /\ InitCache

\* MOV #k,R0; HALT for every 16-bit k
ImmediateImages == {ImageOf(<<\o012700, k, 0>>) : k \in Words}

InitImmediate == InitCpu(ImmediateImages \cup Images) /\ InitCache

\* an input of one line per word
Lines(ws) == [j \in 1..Len(ws) |-> <<ws[j], 1>>]

\* the inputs of the loader: no line, the end-to-end programs, two programs
\* that use every instruction, an input that fills memory exactly (16384
\* lines) and one of 16386 lines
LoadInputs ==
  { << >>,
    Lines(<<0>>),
    Lines(<<\o012700, \o000005, 0>>),
    Lines(<<\o012700, \o000003, \o077001, 0>>),
    Lines(<<\o012700, \o077777, \o012701, \o000001, \o060100, 0>>),
    Lines(<<\o012700, 2, \o062701, 1, \o020100, \o160100, \o006300,
            \o006200, 0>>),
    Lines(<<\o001001, \o170000, \o001400, \o000400, \o077000, \o170000>>),
    <<<<0, MEMSIZE \div 2>>>>,
    <<<<0, MEMSIZE \div 2>>, <<\o000400, 2>>>> }

\* main() before the first fgets(): memory cleared, i = 0
InitLoad ==
  /\ memory = << >>
  /\ loader_i = 0
  /\ stdin \in LoadInputs
  /\ reg = [i \in 0..7 |-> 0]
  /\ n = FALSE
  /\ z = FALSE
  /\ v = FALSE
  /\ c = FALSE
  /\ src = Phrase0
  /\ dst = Phrase0
  /\ running = TRUE
  /\ memory_reads = 0
  /\ memory_writes = 0
  /\ inst_fetches = 0
  /\ inst_execs = 0
  /\ branch_taken = 0
  /\ branch_execs = 0
  /\ instruction = 0
  /\ op = "none"
  /\ status = "loading"
  /\ InitCache

NextLoad == load \/ load_end \/ Next

Spec == Init /\ [][Next]_vars

SpecLoad == InitLoad /\ [][NextLoad]_vars

SpecDecode == InitDecode /\ [][Next]_vars

SpecAlu == InitAlu /\ [][Next]_vars

SpecImmediate == InitImmediate /\ [][Next]_vars

SpecCache == InitCacheOnly /\ [][NextCache]_vars

SpecSet0 == InitCacheOnly /\ [][NextSet0]_vars

(***************************************************************************)
(* Properties of the cache directory                                       *)
(***************************************************************************)
\* index and tag of the address of the access being made
AccIndex == (address' \div 32) % 32

AccTag == address' \div 1024

\* is the accessed line in a valid way of its set before the access
Present == \E w \in Ways : valid[w][AccIndex] = 1 /\ tag[w][AccIndex] = AccTag

\* the tables of section 4.8 of the specification
SpecReplace == [s \in 0..7 |-> <<0, 0, 1, 1, 2, 3, 2, 3>>[s + 1]]

SpecNext ==
  [s \in 0..7 |->
     [w \in 0..3 |->
        << <<6, 4, 1, 0>>, <<7, 5, 1, 0>>, <<6, 4, 3, 2>>, <<7, 5, 3, 2>>,
           <<6, 4, 1, 0>>, <<7, 5, 1, 0>>, <<6, 4, 3, 2>>, <<7, 5, 3, 2>> >>
          [s + 1][w + 1]]]

\* the victim rule of section 4.8, step 3
SpecVictim ==
  LET inv == {w \in Ways : valid[w][AccIndex] = 0} IN
  IF inv # {} THEN CHOOSE w \in inv : \A x \in inv : w <= x
  ELSE SpecReplace[plru_state[AccIndex]]

\* C2: hits + misses = cache_reads + cache_writes in every state, and every
\* cache_access adds 1 to exactly one of cache_reads / cache_writes and to
\* exactly one of hits / misses
C2_AccessesAccounted ==
  /\ [](hits + misses = cache_reads + cache_writes)
  /\ [][cache_init \/
        /\ \/ cache_reads' = cache_reads + 1 /\ cache_writes' = cache_writes
           \/ cache_reads' = cache_reads /\ cache_writes' = cache_writes + 1
        /\ \/ hits' = hits + 1 /\ misses' = misses
           \/ hits' = hits /\ misses' = misses + 1]_vars

C2_Witness == hits >= 2 /\ misses >= 2 /\ cache_reads >= 1 /\ cache_writes >= 1

\* C3: after every access the PLRU state of the accessed set is the entry of
\* the next-state table of section 4.8 for the old state and the way that
\* hit or was chosen as victim (the way that holds the line afterwards), and
\* every plru_state is in 0..7
C3_PlruFollowsTable ==
  /\ [](\A i \in Sets : plru_state[i] \in 0..7)
  /\ [][cache_init \/
        /\ valid'[bank'][AccIndex] = 1
        /\ tag'[bank'][AccIndex] = AccTag
        /\ Present => valid[bank'][AccIndex] = 1 /\ tag[bank'][AccIndex] = AccTag
        /\ plru_state'[AccIndex] = SpecNext[plru_state[AccIndex]][bank']]_vars

\* a miss in a full set, after hits have moved the PLRU state
C3_Witness ==
  /\ misses = 5
  /\ hits >= 2
  /\ plru_state[0] \notin {0, 6}
  /\ \A w \in Ways : valid[w][0] = 1

\* C4: an access is a hit exactly when a valid way of set (a>>5)&31 holds
\* tag a>>10, else a miss; a hit changes no valid bit and no tag; the low 5
\* bits of the address change nothing of the outcome
C4_HitIffPresent ==
  [][cache_init \/
     /\ Present => hits' = hits + 1 /\ misses' = misses
                   /\ valid' = valid /\ tag' = tag
     /\ ~Present => hits' = hits /\ misses' = misses + 1
     /\ CurCache' = CacheStep(CurCache, address' - (address' % 32), type')
     /\ bank' = BankOf(CurCache, address' - (address' % 32))]_vars

\* a hit by an address with nonzero byte offset on a line that was installed
\* at offset 0
C4_Witness == address = 5 /\ hits = 1 /\ misses = 2 /\ bank = 0 /\ valid[1][0] = 1

\* C5: on a miss the victim is the lowest-numbered invalid way of the set if
\* there is one, else the way the replacement table gives for the PLRU state;
\* afterwards the victim holds valid = 1 and the new tag, and no other way of
\* the set has changed valid or tag
C5_VictimChoice ==
  [][cache_init \/ Present \/
     /\ bank' = SpecVictim
     /\ valid'[SpecVictim][AccIndex] = 1
     /\ tag'[SpecVictim][AccIndex] = AccTag
     /\ \A w \in Ways \ {SpecVictim} :
          /\ valid'[w][AccIndex] = valid[w][AccIndex]
          /\ tag'[w][AccIndex] = tag[w][AccIndex]]_vars

\* a miss that replaced way 3 of a full set
C5_Witness ==
  /\ misses >= 5
  /\ bank = 3
  /\ \A w \in Ways : valid[w][0] = 1
  /\ tag[3][0] = addr_tag(address)
  /\ hits >= 1
  /\ cache_reads + cache_writes = hits + misses

\* C6: write_backs grows by 1 in an access exactly when the access misses
\* and its victim was valid and dirty, and is unchanged otherwise; four
\* writes to four tags of a set after cache_init followed by an access to a
\* fifth tag of the set give write_backs + 1
C6_WriteBackIffDirtyVictim ==
  [][cache_init \/
     /\ write_backs' =
          IF ~Present /\ valid[SpecVictim][AccIndex] = 1
                      /\ dirty[SpecVictim][AccIndex] = 1
            THEN write_backs + 1 ELSE write_backs
     /\ (/\ cache_writes = 4 /\ cache_reads = 0 /\ misses = 4
         /\ \A w \in Ways : valid[w][AccIndex] = 1
         /\ ~Present) => write_backs' = write_backs + 1]_vars

C6_Witness ==
  /\ write_backs = 1
  /\ misses = 5
  /\ hits = 0
  /\ cache_writes >= 4
  /\ \A w \in Ways : valid[w][0] = 1

\* C7: after cache_init, N >= 1 accesses that all have the same tag and set
\* index give 1 miss and N - 1 hits, and no write-back
C7_OneLineOneMiss ==
  Cardinality(lines) = 1 =>
    /\ misses = 1
    /\ hits = cache_reads + cache_writes - 1
    /\ write_backs = 0

C7_Witness ==
  /\ Cardinality(lines) = 1
  /\ hits = 4
  /\ cache_reads >= 1
  /\ cache_writes >= 1
  /\ address = 5

(***************************************************************************)
(* Properties of the CPU                                                   *)
(***************************************************************************)
\* C1: after every executed instruction execution has terminated, or R7 is
\* even and below MEMSIZE
C1_R7EvenInMemory ==
  status = "running" => (reg[7] % 2 = 0 /\ reg[7] < MEMSIZE)

\* the dispatch table of section 4.2, longest prefix first
SpecMnemonic(w) ==
  IF w = 0 THEN "halt"
  ELSE IF w \div 64 = \o0062 THEN "asr"
  ELSE IF w \div 64 = \o0063 THEN "asl"
  ELSE IF w \div 256 = \o001 THEN "br"
  ELSE IF w \div 256 = \o002 THEN "bne"
  ELSE IF w \div 256 = \o003 THEN "beq"
  ELSE IF w \div 512 = \o077 THEN "sob"
  ELSE IF w \div 4096 = \o01 THEN "mov"
  ELSE IF w \div 4096 = \o02 THEN "cmp"
  ELSE IF w \div 4096 = \o06 THEN "add"
  ELSE IF w \div 4096 = \o16 THEN "sub"
  ELSE "invalid"

\* the word the next iteration fetches
NextWord == Mem(memory, reg[7])

\* C8: operate() dispatches every instruction word to the mnemonic that
\* longest-prefix-first matching of the table gives; a word that matches
\* nothing is a fatal error that changes no counter, flag, memory word or
\* register other than the advanced R7
C8_DispatchByLongestPrefix ==
  [][/\ instruction' = NextWord
     /\ op' = SpecMnemonic(NextWord)
     /\ SpecMnemonic(NextWord) = "invalid" =>
          /\ status' = "fatal"
          /\ UNCHANGED <<inst_execs, inst_fetches, memory_reads, memory_writes,
                         branch_execs, branch_taken>>
          /\ UNCHANGED <<n, z, v, c, memory>>
          /\ reg' = [reg EXCEPT ![7] = (@ + 2) % 65536]]_vars

\* the all-ones word was fetched as the first instruction and rejected
C8_Witness ==
  /\ op = "invalid"
  /\ instruction = \o177777
  /\ status = "fatal"
  /\ inst_execs = 0
  /\ inst_fetches = 0
  /\ reg[7] = 2

\* is the destination phrase a register or a memory word (an immediate
\* destination, mode 2 of R7, is neither)
DstIsLocation == ~(dst.mode = 2 /\ dst.reg = 7)

\* the word held by the destination operand's location
DstHolds == IF dst.mode = 0 THEN reg[dst.reg] ELSE Mem(memory, dst.addr)

\* C9: after every MOV the destination (the register for mode 0, the word at
\* the effective address for the memory modes) holds the source value
C9_MovStoresSource ==
  (op = "mov" /\ status # "crash" /\ DstIsLocation) => DstHolds = src.value

\* C10: SUB stores (dst - src) mod 2^16 in the destination's own location,
\* modifies no other memory word, and adds 1 to memory_writes when the
\* destination is in memory
C10_SubWritesDestination ==
  [][(op' = "sub" /\ status' # "crash" /\ DstIsLocation') =>
       LET res == (dst'.value + 65536 - src'.value) % 65536 IN
       IF dst'.mode = 0
         THEN /\ reg'[dst'.reg] = res
              /\ memory' = memory
              /\ memory_writes' = memory_writes
         ELSE /\ memory' = Store(memory, dst'.addr, res)
              /\ memory_writes' = memory_writes + 1]_vars

\* C11: SOB subtracts 1 (mod 2^16) from the register named by bits 8..6 of
\* the instruction word and, exactly when the result is nonzero, sets R7 to
\* the address after the SOB word minus twice the low 6 bits; no other
\* register, no flag and no memory word changes, branch_execs grows by 1 and
\* branch_taken by 1 exactly when the branch is taken
C11_SobDecrementsNamedRegister ==
  [][op' = "sob" =>
       LET r == (instruction' \div 64) % 8
           off == instruction' % 64
           adv == [reg EXCEPT ![7] = (@ + 2) % 65536]
           dec == [adv EXCEPT ![r] = (@ + 65535) % 65536]
           taken == dec[r] # 0
       IN /\ reg' = IF taken
                      THEN [dec EXCEPT ![7] = (@ + 65536 - 2 * off) % 65536]
                      ELSE dec
          /\ UNCHANGED <<n, z, v, c, memory>>
          /\ branch_execs' = branch_execs + 1
          /\ branch_taken' = IF taken THEN branch_taken + 1 ELSE branch_taken]_vars

\* C12: in the counted loop MOV #k,R0; SOB R0,1; HALT the SOB executes at
\* most k times, and when HALT has executed branch_execs = k,
\* branch_taken = k - 1 and R0 = 0
C12_CountedLoop ==
  \A k \in {1, 2, 3} :
    memory = (0 :> \o012700 @@ 2 :> k @@ 4 :> \o077001) =>
      /\ branch_execs <= k
      /\ op = "halt" =>
           branch_execs = k /\ branch_taken = k - 1 /\ reg[0] = 0

\* C13: every run that executes HALT ends with the statistics and exit
\* status 0, never with a fatal error or a crash; the image 000000 ends
\* with inst_execs = 1, inst_fetches = 1 and every other counter 0
C13_HaltExitsCleanly ==
  op = "halt" =>
    /\ status = "exit0"
    /\ memory = << >> =>
         /\ inst_execs = 1
         /\ inst_fetches = 1
         /\ memory_reads = 0
         /\ memory_writes = 0
         /\ branch_execs = 0
         /\ branch_taken = 0

\* C14: no instruction is fetched or executed after HALT has executed, so
\* registers, flags, memory and counters stay as HALT left them; HALT itself
\* changes no flag, no memory word and no register but the advanced R7, and
\* adds 1 to inst_execs and to inst_fetches only
C14_HaltStopsExecution ==
  [][/\ op # "halt"
     /\ op' = "halt" =>
          /\ instruction' = 0
          /\ UNCHANGED <<n, z, v, c, memory>>
          /\ reg' = [reg EXCEPT ![7] = (@ + 2) % 65536]
          /\ inst_execs' = inst_execs + 1
          /\ inst_fetches' = inst_fetches + 1
          /\ UNCHANGED <<memory_reads, memory_writes,
                         branch_execs, branch_taken>>]_vars

\* HALT after a preamble and an instruction that wrote memory and set N
C14_Witness ==
  /\ op = "halt"
  /\ status = "exit0"
  /\ inst_execs = 4
  /\ memory_writes = 1
  /\ n
  /\ ~running

\* does the phrase name a memory word
InMemory(ph) == ph.mode # 0 /\ ~(ph.mode = 2 /\ ph.reg = 7)

\* C15: an instruction that completes has used only even effective
\* addresses below MEMSIZE for its operands; an index-deferred operand whose
\* index word plus register is >= MEMSIZE ends the run with a fatal error
\* instead of being wrapped into range
C15_AddressesEvenInRange ==
  /\ []((status \in {"running", "exit0"}
          /\ op \in {"mov", "cmp", "add", "sub", "asr", "asl"}
          /\ InMemory(dst))
         => (dst.addr % 2 = 0 /\ dst.addr < 32768))
  /\ []((status \in {"running", "exit0"}
          /\ op \in {"mov", "cmp", "add", "sub"}
          /\ InMemory(src))
         => (src.addr % 2 = 0 /\ src.addr < 32768))
  /\ [][(/\ op' \in {"asr", "asl"}
         /\ dst'.mode = 7
         /\ dst'.reg # 7
         /\ Mem(memory, reg[7] + 2) + reg[dst'.reg] >= 32768)
        => status' = "fatal"]_vars

\* an operand that is a register other than R7 or an absolute memory word:
\* resolving it changes no register but R7 and reads the operand as it was
\* before the instruction
PlainOperand(ph) == (ph.mode = 0 /\ ph.reg # 7) \/ (ph.mode = 3 /\ ph.reg = 7)

\* the word the operand's location holds before / after the step
OperandBefore(ph) == IF ph.mode = 0 THEN reg[ph.reg] ELSE Mem(memory, ph.addr)

OperandAfter(ph) == IF ph.mode = 0 THEN reg'[ph.reg] ELSE Mem(memory', ph.addr)

SignOf(x) == x \div 32768

\* C16: CMP computes result = (src - dst) mod 2^16 and sets N = bit 15 of
\* the result, Z = (result = 0), V = (sign(src) # sign(dst)) and
\* (sign(result) # sign(src)), C = (src < dst) unsigned
C16_CmpFlags ==
  [][(op' = "cmp" /\ status' # "crash"
      /\ PlainOperand(src') /\ PlainOperand(dst')) =>
       LET s == OperandBefore(src')
           d == OperandBefore(dst')
           res == (s + 65536 - d) % 65536
       IN /\ n' = (SignOf(res) = 1)
          /\ z' = (res = 0)
          /\ v' = (SignOf(s) # SignOf(d) /\ SignOf(res) # SignOf(s))
          /\ c' = (s < d)]_vars

\* C17: ADD writes (dst + src) mod 2^16 to the destination and sets
\* N = bit 15 of the result, Z = (result = 0), V = (sign(dst) = sign(src))
\* and (sign(result) # sign(src)), C = (dst + src > 0xFFFF); the program
\* MOV #0x7FFF,R0; MOV #1,R1; ADD R1,R0 leaves R0 = 0x8000, N=1 Z=0 V=1 C=0
C17_AddResultAndFlags ==
  /\ [][(op' = "add" /\ status' # "crash"
         /\ PlainOperand(src') /\ PlainOperand(dst')) =>
          LET s == OperandBefore(src')
              d == OperandBefore(dst')
              res == (d + s) % 65536
          IN /\ OperandAfter(dst') = res
             /\ n' = (SignOf(res) = 1)
             /\ z' = (res = 0)
             /\ v' = (SignOf(d) = SignOf(s) /\ SignOf(res) # SignOf(s))
             /\ c' = (d + s > 65535)]_vars
  /\ []((op = "add" /\ instruction = \o060100
         /\ Mem(memory, 2) = \o077777 /\ Mem(memory, 6) = 1
         /\ Mem(memory, 0) = \o012700 /\ Mem(memory, 4) = \o012701)
        => (reg[0] = 32768 /\ n /\ ~z /\ v /\ ~c))

\* 0x8000 + 0x8000 in registers: result 0 with Z, V and C set
C17_Witness ==
  /\ op = "add"
  /\ dst.mode = 0
  /\ src.value = 32768
  /\ reg[0] = 0
  /\ z /\ v /\ c /\ ~n

\* C18: SUB sets N = bit 15 of the result (dst - src) mod 2^16,
\* Z = (result = 0), V = (sign(dst) # sign(src)) and (sign(result) #
\* sign(dst)), C = (dst < src) unsigned; equal operands give Z = 1, N = 0,
\* V = 0, C = 0
C18_SubFlags ==
  [][(op' = "sub" /\ status' # "crash"
      /\ PlainOperand(src') /\ PlainOperand(dst')) =>
       LET s == OperandBefore(src')
           d == OperandBefore(dst')
           res == (d + 65536 - s) % 65536
       IN /\ n' = (SignOf(res) = 1)
          /\ z' = (res = 0)
          /\ v' = (SignOf(d) # SignOf(s) /\ SignOf(res) # SignOf(d))
          /\ c' = (d < s)
          /\ (s = d) => (z' /\ ~n' /\ ~v' /\ ~c')]_vars

\* C19: ASL writes (old * 2) mod 2^16 to the destination and sets N = bit 15
\* of new, Z = (new = 0), V = (bit 15 of old # bit 15 of new), C = bit 15 of
\* old; old = 0x8000 gives new = 0 with C = 1, Z = 1, N = 0, V = 1
C19_AslResultAndFlags ==
  [][(op' = "asl" /\ status' # "crash" /\ PlainOperand(dst')) =>
       LET old == OperandBefore(dst')
           new == (old * 2) % 65536
       IN /\ OperandAfter(dst') = new
          /\ new % 2 = 0
          /\ n' = (SignOf(new) = 1)
          /\ z' = (new = 0)
          /\ v' = (SignOf(old) # SignOf(new))
          /\ c' = (SignOf(old) = 1)
          /\ (old = 32768)
               => (OperandAfter(dst') = 0 /\ c' /\ z' /\ ~n' /\ v')]_vars

\* ASL of the memory word 0x8000 at the absolute address 16
C19_Witness ==
  /\ op = "asl"
  /\ dst.mode = 3
  /\ dst.addr = 16
  /\ Mem(memory, 16) = 0
  /\ memory_writes = 1
  /\ c /\ z /\ v /\ ~n

\* C20: ASR writes old >> 1 with bit 15 of old kept to the destination and
\* sets N = bit 15 of new, Z = (new = 0), C = bit 0 of old and
\* V = (bit 15 of old) XOR (bit 0 of new)
C20_AsrResultAndFlags ==
  [][(op' = "asr" /\ status' # "crash" /\ PlainOperand(dst')) =>
       LET old == OperandBefore(dst')
           new == (old \div 2) + 32768 * SignOf(old)
       IN /\ OperandAfter(dst') = new
          /\ n' = (SignOf(new) = 1)
          /\ z' = (new = 0)
          /\ c' = (old % 2 = 1)
          /\ v' = (SignOf(old) # new % 2)]_vars

\* C21: after every MOV N = bit 15 of the value written to the destination,
\* Z = (that value = 0), V = 0 and C is what it was before the MOV
C21_MovFlags ==
  [][(op' = "mov" /\ status' # "crash" /\ DstIsLocation') =>
       /\ n' = (SignOf(DstHolds') = 1)
       /\ z' = (DstHolds' = 0)
       /\ ~v'
       /\ c' = c]_vars

\* the low byte of a branch word as a signed offset in words
SpecOffset(w) == IF w % 256 >= 128 THEN (w % 256) - 256 ELSE w % 256

\* is the branch being executed taken: BR always, BEQ on Z, BNE on not Z
SpecTaken == op' = "br" \/ (op' = "beq" /\ z) \/ (op' = "bne" /\ ~z)

\* C22: BR always, BEQ exactly when Z = 1 and BNE exactly when Z = 0 set R7
\* to (R7 + 2*off) mod 2^16, R7 being the address after the branch word and
\* off the sign-extended low byte (0x7F: 254 bytes forward, 0x80: 256 bytes
\* backward); otherwise R7 is the address after the branch word; each adds
\* 1 to branch_execs, 1 to branch_taken exactly when taken, and changes no
\* flag
C22_BranchTargets ==
  [][op' \in {"br", "bne", "beq"} =>
       LET next == (reg[7] + 2) % 65536 IN
       /\ reg' = [reg EXCEPT ![7] =
                    IF SpecTaken
                      THEN (next + 65536 + 2 * SpecOffset(instruction')) % 65536
                      ELSE next]
       /\ (SpecTaken /\ instruction' % 256 = 127) => reg'[7] = next + 254
       /\ (SpecTaken /\ instruction' % 256 = 128)
            => reg'[7] = (next + 65536 - 256) % 65536
       /\ branch_execs' = branch_execs + 1
       /\ branch_taken' = IF SpecTaken THEN branch_taken + 1 ELSE branch_taken
       /\ UNCHANGED <<n, z, v, c>>]_vars

\* a BEQ with offset 0x7F taken from address 10
C22_Witness ==
  /\ op = "beq"
  /\ instruction % 256 = 127
  /\ z
  /\ reg[7] = 264
  /\ branch_taken = 1
  /\ branch_execs = 1

\* C23: CMP, BR, BNE, BEQ and SOB change no memory word and leave
\* memory_writes alone; after CMP the destination location still holds the
\* operand value that was read from it
C23_NoWriteOnCmpAndBranches ==
  [][(op' \in {"cmp", "br", "bne", "beq", "sob"} /\ status' # "crash") =>
       /\ UNCHANGED <<memory, memory_writes>>
       /\ (op' = "cmp" /\ DstIsLocation') => DstHolds' = dst'.value]_vars

\* a CMP of two different memory operands that left N set
C23_Witness ==
  /\ op = "cmp"
  /\ InMemory(src)
  /\ InMemory(dst)
  /\ src.value # dst.value
  /\ memory_reads >= 2
  /\ memory_writes = 0
  /\ status = "running"

\* C24: in every state inst_execs >= branch_execs and
\* branch_taken <= branch_execs
C24_BranchCountersOrdered ==
  /\ inst_execs >= branch_execs
  /\ branch_taken <= branch_execs

\* the loop ADD #3,R1; SOB; HALT after its HALT: two taken, one not taken
C24_Witness ==
  /\ status = "exit0"
  /\ branch_execs = 3
  /\ branch_taken = 2
  /\ inst_execs = 5

\* does an operand field (mode * 8 + register) take a word from the
\* instruction stream: immediate, absolute, index or index deferred
SpecTakesWord(f) ==
  \/ f \div 8 \in {6, 7}
  \/ (f \div 8 \in {2, 3} /\ f % 8 = 7)

\* the number of words that follow instruction word w in the stream
SpecExtCount(w) ==
  LET k == SpecMnemonic(w)
      s == IF k \in {"mov", "cmp", "add", "sub"}
                /\ SpecTakesWord((w \div 64) % 64) THEN 1 ELSE 0
      d == IF k \in {"mov", "cmp", "add", "sub", "asr", "asl"}
                /\ SpecTakesWord(w % 64) THEN 1 ELSE 0
  IN s + d

\* C25: every instruction that decodes and completes, HALT included, adds
\* exactly 1 to inst_execs and to inst_fetches 1 plus 1 for each immediate,
\* absolute or index word of its operands; no counter ever decreases
C25_FetchAndExecCounts ==
  [][/\ (op' # "invalid" /\ status' # "crash") =>
          /\ inst_execs' = inst_execs + 1
          /\ inst_fetches' = inst_fetches + 1 + SpecExtCount(instruction')
     /\ inst_execs' >= inst_execs
     /\ inst_fetches' >= inst_fetches
     /\ memory_reads' >= memory_reads
     /\ memory_writes' >= memory_writes
     /\ branch_execs' >= branch_execs
     /\ branch_taken' >= branch_taken]_vars

\* two immediate words of the preamble and two words of the third
\* instruction
C25_Witness ==
  /\ status = "running"
  /\ inst_execs = 3
  /\ inst_fetches = 7
  /\ op \in {"mov", "cmp", "add", "sub"}
  /\ memory_reads >= 1

\* C26: write_backs <= misses in every state; an access adds at most 1 to
\* write_backs, and only when it adds 1 to misses
C26_WriteBacksWithinMisses ==
  /\ [](write_backs <= misses)
  /\ [][cache_reads' + cache_writes' = cache_reads + cache_writes + 1 =>
          /\ write_backs' \in {write_backs, write_backs + 1}
          /\ write_backs' = write_backs + 1 => misses' = misses + 1]_vars

\* a dirty line of set 0 was evicted, and accesses have hit since
C26_Witness ==
  /\ write_backs = 1
  /\ misses >= 5
  /\ hits >= 2
  /\ cache_writes >= 1

\* are the directory and the counters all zero
CacheAllZero ==
  /\ cache_reads = 0 /\ cache_writes = 0
  /\ hits = 0 /\ misses = 0 /\ write_backs = 0
  /\ \A s \in 0..31 :
       /\ plru_state[s] = 0
       /\ \A w \in 0..3 : valid[w][s] = 0 /\ dirty[w][s] = 0 /\ tag[w][s] = 0

\* C27: after cache_init, at the start or after any accesses, the five
\* counters and every valid bit, dirty bit, tag and PLRU state of the 32
\* sets and 4 ways are 0 (the steps that are not accesses are the
\* cache_init calls)
C27_InitClearsEverything ==
  /\ [](cache_reads + cache_writes = 0 => CacheAllZero)
  /\ [][cache_reads' + cache_writes' # cache_reads + cache_writes + 1
         => CacheAllZero']_vars

\* cache_init after accesses that had filled set 0 and evicted a dirty line
C27_Witness ==
  /\ CacheAllZero
  /\ address = 4096
  /\ bank = 0
  /\ lines = {}

\* C28: every data reference of the CPU (each one counted in memory_reads or
\* memory_writes) is presented to cache_access, so that at the end of a run
\* cache_reads = memory_reads and cache_writes = memory_writes
C28_CacheSeesDataReferences ==
  status = "exit0" =>
    /\ cache_reads = memory_reads
    /\ cache_writes = memory_writes

\* is w an instruction with exactly one absolute operand (mode 3 of R7), a
\* second operand, if it has one, being a register R0..R6
OneAbsoluteOperand(w) ==
  LET k == SpecMnemonic(w)
      sf == (w \div 64) % 64
      df == w % 64
  IN \/ k \in {"asr", "asl"} /\ df = \o37
     \/ k \in {"mov", "cmp", "add", "sub"} /\ sf = \o37 /\ df \in 0..6
     \/ k \in {"mov", "cmp", "add", "sub"} /\ sf \in 0..6 /\ df = \o37

\* C30: resolving an absolute operand advances R7 by exactly 2 over the
\* address word, adds 1 to inst_fetches for it and exactly 1 to
\* memory_reads, for the operand itself: an instruction with one absolute
\* operand and no other memory operand leaves R7 4 bytes after its own
\* address, inst_fetches + 2 and memory_reads + 1
C30_AbsoluteOperand ==
  [][(OneAbsoluteOperand(instruction') /\ status' # "crash") =>
       /\ reg'[7] = reg[7] + 4
       /\ inst_fetches' = inst_fetches + 2
       /\ memory_reads' = memory_reads + 1]_vars

\* C29: the loader stores the Nth input word at byte address 2*N and leaves
\* every other memory word 0; a line read when memory is full (more than
\* 16384 words) is a fatal error and stores nothing outside memory
C29_LoaderStoresInBounds ==
  /\ [](status = "loading" =>
          \A a \in DOMAIN memory : a % 2 = 0 /\ a < loader_i)
  /\ [][(status = "loading" /\ stdin # << >>) =>
          IF loader_i < 32768
            THEN /\ Mem(memory', loader_i) = Head(stdin)[1]
                 /\ \A a \in (DOMAIN memory \cup DOMAIN memory') \ {loader_i} :
                      Mem(memory', a) = Mem(memory, a)
                 /\ loader_i' = loader_i + 2
                 /\ status' = "loading"
            ELSE /\ status' = "fatal"
                 /\ UNCHANGED <<memory, reg>>]_vars

\* is w an instruction with exactly one immediate operand (mode 2 of R7), a
\* second operand, if it has one, being a register R0..R6; SUB with an
\* immediate destination is left aside, its store being no part of the
\* resolution of the operand
OneImmediateOperand(w) ==
  LET k == SpecMnemonic(w)
      sf == (w \div 64) % 64
      df == w % 64
  IN \/ k \in {"asr", "asl"} /\ df = \o27
     \/ k \in {"mov", "cmp", "add", "sub"} /\ sf = \o27 /\ df \in 0..6
     \/ k \in {"mov", "cmp", "add"} /\ sf \in 0..6 /\ df = \o27

\* C31: an immediate operand is the word that follows the instruction word;
\* resolving it advances R7 by exactly 2 over that word, adds 1 to
\* inst_fetches and nothing to memory_reads; the program MOV #k,R0; HALT
\* ends with R0 = k, inst_execs = 2, inst_fetches = 3, memory_reads = 0 and
\* memory_writes = 0
C31_ImmediateOperand ==
  /\ [][(OneImmediateOperand(instruction') /\ status' # "crash"
         /\ reg[7] + 2 < 32768) =>
          /\ reg'[7] = reg[7] + 4
          /\ inst_fetches' = inst_fetches + 2
          /\ memory_reads' = memory_reads
          /\ ((instruction' \div 64) % 64 = \o27 /\ instruction' \div 4096 # 0)
               => src'.value = Mem(memory, reg[7] + 2)]_vars
  /\ []((op = "halt" /\ Mem(memory, 0) = \o012700 /\ Mem(memory, 4) = 0) =>
          /\ reg[0] = Mem(memory, 2)
          /\ inst_execs = 2
          /\ inst_fetches = 3
          /\ memory_reads = 0
          /\ memory_writes = 0)

\* MOV #0177777,R0; HALT after its HALT
C31_Witness ==
  /\ op = "halt"
  /\ status = "exit0"
  /\ Mem(memory, 0) = \o012700
  /\ Mem(memory, 2) = 65535
  /\ reg[0] = 65535
  /\ inst_fetches = 3

\* the operand field (mode * 8 + register) of the one index or index
\* deferred operand of w, a second operand, if w has one, being a register
\* R0..R6; -1 when w is no such instruction
IndexField(w) ==
  LET k == SpecMnemonic(w)
      sf == (w \div 64) % 64
      df == w % 64
  IN IF k \in {"asr", "asl"} /\ df \div 8 \in {6, 7} THEN df
     ELSE IF k \in {"mov", "cmp", "add", "sub"} /\ sf \div 8 \in {6, 7}
             /\ df \in 0..6 THEN sf
     ELSE -1

\* C32: an index operand has ea = mem[R7] + R[reg], R7 being the address of
\* the index word and R[reg] read before R7 moves (also for reg = 7); R7
\* then advances by exactly 2, the index word adds 1 to inst_fetches and
\* nothing to memory_reads, the operand read adds 1 to memory_reads; an
\* index deferred operand takes the same sum as the address of a pointer,
\* ea = mem[mem[R7] + R[reg]], and adds 2 to memory_reads
C32_IndexOperand ==
  [][(IndexField(instruction') # -1 /\ status' # "crash") =>
       LET f == IndexField(instruction')
           r == f % 8
           ph == IF SpecMnemonic(instruction') \in {"asr", "asl"}
                   THEN dst' ELSE src'
           pc == reg[7] + 2
           sum == Mem(memory, pc) + (IF r = 7 THEN pc ELSE reg[r])
       IN /\ reg'[7] = reg[7] + 4
          /\ inst_fetches' = inst_fetches + 2
          /\ sum < 32768
          /\ IF f \div 8 = 6
               THEN /\ ph.addr = sum
                    /\ memory_reads' = memory_reads + 1
               ELSE /\ ph.addr = Mem(memory, sum)
                    /\ memory_reads' = memory_reads + 2]_vars

\* the mode table for a register R0..R6, read in the state before the
\* instruction: effective address, register afterwards, data reads
SpecEa(md, r) ==
  CASE md = 1 -> reg[r]
    [] md = 2 -> reg[r]
    [] md = 3 -> Mem(memory, reg[r])
    [] md = 4 -> (reg[r] + 65534) % 65536
    [] md = 5 -> Mem(memory, (reg[r] + 65534) % 65536)

SpecRegAfter(md, r) ==
  CASE md \in {0, 1} -> reg[r]
    [] md \in {2, 3} -> (reg[r] + 2) % 65536
    [] md \in {4, 5} -> (reg[r] + 65534) % 65536

SpecReads(md) == CASE md = 0 -> 0 [] md \in {1, 2, 4} -> 1 [] md \in {3, 5} -> 2

\* the result of a shift of x
SpecShift(k, x) ==
  IF k = "asl" THEN (2 * x) % 65536 ELSE (x \div 2) + 32768 * SignOf(x)

\* C33: for a register R0..R6 the operand is resolved by the mode table
\* (mode 0 the register; mode 1 ea = R; mode 2 ea = R, then R + 2; mode 3
\* ea = mem[R], then R + 2; mode 4 R - 2, then ea = R; mode 5 R - 2, then
\* ea = mem[R]); the value is mem[ea]; memory_reads grows by 1 in modes 1, 2,
\* 4 and by 2 in modes 3, 5; the write-back of a shift stores its result at
\* that ea and nowhere else
C33_ModeTable ==
  /\ [][(op' \in {"asr", "asl"} /\ status' # "crash"
         /\ instruction' % 8 # 7 /\ (instruction' \div 8) % 8 <= 5) =>
          LET md == (instruction' \div 8) % 8
              r == instruction' % 8
          IN IF md = 0
               THEN /\ reg'[r] = SpecShift(op', reg[r])
                    /\ UNCHANGED <<memory, memory_reads, memory_writes>>
               ELSE LET ea == SpecEa(md, r) IN
                    /\ dst'.addr = ea
                    /\ reg'[r] = SpecRegAfter(md, r)
                    /\ memory_reads' = memory_reads + SpecReads(md)
                    /\ memory_writes' = memory_writes + 1
                    /\ Mem(memory', ea) = SpecShift(op', Mem(memory, ea))
                    /\ \A a \in (DOMAIN memory \cup DOMAIN memory') \ {ea} :
                         Mem(memory', a) = Mem(memory, a)]_vars
  /\ [][(op' \in {"mov", "cmp", "add", "sub"} /\ status' # "crash"
         /\ (instruction' \div 64) % 8 # 7
         /\ (instruction' \div 512) % 8 <= 5
         /\ instruction' % 64 \in 0..6) =>
          LET md == (instruction' \div 512) % 8
              r == (instruction' \div 64) % 8
          IN /\ memory_reads' = memory_reads + SpecReads(md)
             /\ (op' = "cmp" \/ instruction' % 8 # r)
                  => reg'[r] = SpecRegAfter(md, r)
             /\ IF md = 0 THEN src'.value = reg[r]
                ELSE /\ src'.addr = SpecEa(md, r)
                     /\ src'.value = Mem(memory, SpecEa(md, r))]_vars

\* ASL @-(R1) with R1 = 16: R1 = 14, the pointer is memory[14] = 0, the
\* operand memory[0]
C33_Witness ==
  /\ op = "asl"
  /\ status = "running"
  /\ dst.mode = 5
  /\ dst.reg = 1
  /\ reg[1] = 14
  /\ dst.addr = 0
  /\ memory_reads = 2
  /\ memory_writes = 1
  /\ Mem(memory, 0) = (2 * \o062701) % 65536

\* did the operand with field f (mode * 8 + register), resolved into the
\* phrase ph, take its extension word from address at: the word is the
\* immediate value, the absolute address, or the index added to the
\* register (for R7, to at); an immediate destination keeps the word in its
\* value only under CMP, which stores no result in dst.value
TookWordAt(ph, f, at, isdst) ==
  LET x == Mem(memory, at)
      sum == x + (IF f % 8 = 7 THEN at ELSE reg[f % 8])
  IN CASE f = \o27 -> (isdst /\ op' # "cmp") \/ ph.value = x
       [] f = \o37 -> ph.addr = x
       [] f \div 8 = 6 -> ph.addr = sum
       [] f \div 8 = 7 -> sum < 32768 => ph.addr = Mem(memory, sum)

\* C34: MOV, CMP, ADD and SUB resolve the source completely before the
\* destination: with source (Rn)+ and destination (Rn)+ the source is
\* mem[Rn], the destination mem[Rn + 2] and Rn ends 4 higher; when both
\* operands take an extension word, the source takes the first word after
\* the instruction word and the destination the second
C34_SourceBeforeDestination ==
  /\ [][(op' \in {"mov", "cmp", "add", "sub"} /\ status' # "crash"
         /\ (instruction' \div 512) % 8 = 2 /\ (instruction' \div 8) % 8 = 2
         /\ (instruction' \div 64) % 8 = instruction' % 8
         /\ instruction' % 8 # 7) =>
          LET r == instruction' % 8 IN
          /\ src'.addr = reg[r]
          /\ src'.value = Mem(memory, reg[r])
          /\ dst'.addr = reg[r] + 2
          /\ reg'[r] = reg[r] + 4]_vars
  /\ [][(op' \in {"mov", "cmp", "add", "sub"} /\ status' # "crash"
         /\ SpecTakesWord((instruction' \div 64) % 64)
         /\ SpecTakesWord(instruction' % 64)) =>
          /\ TookWordAt(src', (instruction' \div 64) % 64, reg[7] + 2, FALSE)
          /\ TookWordAt(dst', instruction' % 64, reg[7] + 4, TRUE)
          /\ inst_fetches' = inst_fetches + 3]_vars

\* the three bits of a PLRU state: half selector (value 4), left pair
\* (value 2), right pair (value 1); 1 = the left side was used more recently
HalfBit(s) == s \div 4

LeftBit(s) == (s \div 2) % 2

RightBit(s) == s % 2

\* the way the decision tree replaces in state s
TreeVictim(s) ==
  IF HalfBit(s) = 0
    THEN IF LeftBit(s) = 0 THEN 0 ELSE 1
    ELSE IF RightBit(s) = 0 THEN 2 ELSE 3

\* the state after a reference to way w in state s
TreeNext(s, w) ==
  CASE w = 0 -> 4 + 2 + RightBit(s)
    [] w = 1 -> 4 + RightBit(s)
    [] w = 2 -> 2 * LeftBit(s) + 1
    [] w = 3 -> 2 * LeftBit(s)

\* C35: plru_bank and next_state are the three-bit decision tree: the
\* victim is way 0/1 when the half bit is 0 (by the left-pair bit) and way
\* 2/3 when it is 1 (by the right-pair bit); a reference to way 0 sets
\* half = 1, left = 1, to way 1 half = 1, left = 0, to way 2 half = 0,
\* right = 1, to way 3 half = 0, right = 0, the bit of the other pair
\* staying; for all 8 states and 4 ways, and in every access of a run
C35_TablesAreDecisionTree ==
  /\ [](\A s \in 0..7 :
          /\ PlruBank(s) = TreeVictim(s)
          /\ \A w \in 0..3 : NextState(s * 4 + w) = TreeNext(s, w))
  /\ [][cache_reads' + cache_writes' = cache_reads + cache_writes + 1 =>
          /\ plru_state'[AccIndex] = TreeNext(plru_state[AccIndex], bank')
          /\ (~Present /\ \A w \in 0..3 : valid[w][AccIndex] = 1)
               => bank' = TreeVictim(plru_state[AccIndex])]_vars

\* set 0 full, state 7 (every bit says left), and a miss that replaced way
\* 3 and cleared the half and right-pair bits
C35_Witness ==
  /\ misses = 5
  /\ hits = 2
  /\ bank = 3
  /\ plru_state[0] = 2
  /\ tag[3][0] = 4

\* the valid ways of the accessed set that hold the accessed tag
Matching == {w \in 0..3 : valid[w][AccIndex] = 1 /\ tag[w][AccIndex] = AccTag}

\* C36: no set ever has two valid ways with the same tag; on a hit exactly
\* one way matches, and it is the bank the probe in order 0, 1, 2, 3 found
C36_NoDuplicateTags ==
  /\ [](\A s \in 0..31 : \A w1 \in 0..3 : \A w2 \in 0..3 :
          (w1 # w2 /\ valid[w1][s] = 1 /\ valid[w2][s] = 1)
            => tag[w1][s] # tag[w2][s])
  /\ [][(cache_reads' + cache_writes' = cache_reads + cache_writes + 1
         /\ Present) =>
          /\ Cardinality(Matching) = 1
          /\ Matching = {bank'}
          /\ hits' = hits + 1]_vars

\* four different tags in set 0 after a replacement, and a hit in the last
\* bank probed
C36_Witness ==
  /\ \A w \in 0..3 : valid[w][0] = 1
  /\ Cardinality({tag[w][0] : w \in 0..3}) = 4
  /\ misses >= 5
  /\ hits >= 1
  /\ bank = 3
  /\ tag[3][0] = address \div 1024
  /\ hits + misses = 8

\* C37: the way an access used is never the way the table replaces next,
\* plru_bank[next_state[(s << 2) | w]] # w for all states s and ways w; so
\* of three consecutive accesses to one set, to line A, to another line B
\* and to A again, the last is a hit: the access to B leaves A in the way it
\* was used in, and an access to a line that is present is a hit
C37_UsedWayNotNextVictim ==
  /\ [](\A s \in 0..7 : \A w \in 0..3 : PlruBank(NextState(s * 4 + w)) # w)
  /\ [][(cache_reads' + cache_writes' = cache_reads + cache_writes + 1
         /\ cache_reads + cache_writes >= 1
         /\ AccIndex = (address \div 32) % 32
         /\ AccTag # address \div 1024) =>
          /\ valid'[bank][AccIndex] = 1
          /\ tag'[bank][AccIndex] = address \div 1024
          /\ bank' # bank]_vars
  /\ [][(cache_reads' + cache_writes' = cache_reads + cache_writes + 1
         /\ Present) =>
          (hits' = hits + 1 /\ misses' = misses)]_vars

\* tags 0..3 fill set 0 and tag 4 replaces tag 0; then tag 3, tag 0 (a
\* miss that replaces) and tag 3 again, which hits in bank 3
C37_Witness ==
  /\ cache_reads + cache_writes = 8
  /\ misses = 6
  /\ hits = 2
  /\ address = 3072
  /\ bank = 3
  /\ tag[3][0] = 3
  /\ 0 \in {tag[w][0] : w \in 0..2}
  /\ 4 \in {tag[w][0] : w \in 0..2}

\* the lines that are dirty
DirtyLines == {p \in (0..3) \X (0..31) : dirty[p[1]][p[2]] = 1}

\* C38: a dirty way is valid; write_backs + the number of dirty lines <=
\* cache_writes; a read hit changes no dirty bit; a read miss leaves the
\* line it installs clean and changes no other dirty bit; a line that stays
\* in its way goes from clean to dirty only by a write that hits it
C38_DirtyBits ==
  /\ [](\A p \in DirtyLines : valid[p[1]][p[2]] = 1)
  /\ [](write_backs + Cardinality(DirtyLines) <= cache_writes)
  /\ [][(cache_reads' = cache_reads + 1 /\ cache_writes' = cache_writes) =>
          IF Present
            THEN dirty' = dirty
            ELSE dirty' = [dirty EXCEPT ![bank'][AccIndex] = 0]]_vars
  /\ [][dirty' # dirty => \A w \in 0..3 : \A s \in 0..31 :
          (/\ valid[w][s] = 1 /\ valid'[w][s] = 1 /\ tag'[w][s] = tag[w][s]
           /\ dirty[w][s] = 0 /\ dirty'[w][s] = 1) =>
            (/\ cache_writes' = cache_writes + 1
             /\ AccIndex = s /\ AccTag = tag[w][s] /\ bank' = w
             /\ hits' = hits + 1)]_vars

\* four written lines fill set 0 and a fifth write replaces one of them:
\* one write-back, four dirty lines, five writes
C38_Witness ==
  /\ cache_writes = 5
  /\ cache_reads = 0
  /\ write_backs = 1
  /\ Cardinality(DirtyLines) = 4
  /\ misses = 5

\* the lines that are valid
ValidLines == {p \in (0..3) \X (0..31) : valid[p[1]][p[2]] = 1}

\* C39: the valid ways of every set are ways 0..k-1 for some k; the number
\* of valid lines never exceeds misses; an access clears no valid bit,
\* changes nothing in the directory or the PLRU state of any other set, and
\* on a miss in a set with an invalid way installs into an invalid way (the
\* replacement table decides only when the four ways are valid)
C39_ValidPrefix ==
  /\ [](\A s \in 0..31 : \A k \in 1..3 :
          valid[k][s] = 1 => valid[k - 1][s] = 1)
  /\ [](Cardinality(ValidLines) <= misses)
  /\ [][cache_reads' + cache_writes' = cache_reads + cache_writes + 1 =>
          /\ \A w \in 0..3 : valid[w][AccIndex] = 1 => valid'[w][AccIndex] = 1
          /\ plru_state' = [plru_state EXCEPT ![AccIndex] = plru_state'[AccIndex]]
          /\ \A w \in 0..3 :
               /\ valid'[w] = [valid[w] EXCEPT ![AccIndex] = valid'[w][AccIndex]]
               /\ dirty'[w] = [dirty[w] EXCEPT ![AccIndex] = dirty'[w][AccIndex]]
               /\ tag'[w] = [tag[w] EXCEPT ![AccIndex] = tag'[w][AccIndex]]
          /\ (~Present /\ \E w \in 0..3 : valid[w][AccIndex] = 0) =>
               /\ valid[bank'][AccIndex] = 0
               /\ \A w \in 0..3 : w < bank' => valid[w][AccIndex] = 1]_vars

\* three lines in set 0 and one in set 31, after a hit
C39_Witness ==
  /\ misses = 4
  /\ hits = 1
  /\ valid[0][31] = 1
  /\ valid[1][31] = 0
  /\ valid[2][0] = 1
  /\ valid[3][0] = 0
  /\ plru_state[31] = 6
  /\ Cardinality(ValidLines) = 4

\* the data reads of resolving a memory operand of mode md
SpecDstReads(md) == IF md \in {1, 2, 4, 6} THEN 1 ELSE 2

\* the registers after an instruction at reg[7] whose only register effects
\* are the fetch of the instruction word, the index word of a destination
\* of mode 6 or 7 and one auto-increment or auto-decrement of the
\* destination register r
SpecRegsOnce(md, r) ==
  LET base == [reg EXCEPT ![7] =
                 (reg[7] + 2 + (IF md \in {6, 7} THEN 2 ELSE 0)) % 65536]
      delta == IF md \in {2, 3} THEN 2 ELSE IF md \in {4, 5} THEN 65534 ELSE 0
  IN [base EXCEPT ![r] = (base[r] + delta) % 65536]

\* C40: MOV, like CMP, ADD and SUB, reads its destination before it writes
\* it: with a register source R0..R6 and a memory destination, memory_reads
\* grows by 1 for destination modes 1, 2, 4, 6 and by 2 for modes 3, 5, 7;
\* MOV and ADD add 1 to memory_writes, and the destination register is
\* incremented or decremented exactly once
C40_DestinationReadBeforeWrite ==
  [][(op' \in {"mov", "cmp", "add", "sub"} /\ status' # "crash"
      /\ (instruction' \div 64) % 64 \in 0..6
      /\ instruction' % 64 >= 8
      /\ instruction' % 64 # \o27) =>
       LET md == (instruction' \div 8) % 8
           r == instruction' % 8
       IN /\ memory_reads' = memory_reads + SpecDstReads(md)
          /\ op' \in {"mov", "add"} =>
               /\ memory_writes' = memory_writes + 1
               /\ reg' = SpecRegsOnce(md, r)
          /\ op' = "cmp" =>
               /\ memory_writes' = memory_writes
               /\ reg' = SpecRegsOnce(md, r)]_vars

====
